---- MODULE Spec2Model ----
(***************************************************************************)
(* The tangle sorter of go-ssb-refs (ByPrevious / ByBranches): a set of    *)
(* messages linked by "previous" references is indexed by FillLookup and   *)
(* then ordered by sort.Sort through Len / Less / Swap.                    *)
(*                                                                         *)
(* A message is the test suite's fakeMessage: a key and a list of previous *)
(* keys.  Keys are the numbers 1..MaxKeys (the bytes of the hash); the     *)
(* string form used as map key is built by Ref.  Go indices are 0-based,   *)
(* TLA+ sequences 1-based: Less(i, j) and Swap(i, j) take Go indices.      *)
(***************************************************************************)
EXTENDS Integers, Sequences, FiniteSets, TLC

\* Number of messages of the set handed to the sorter.
MaxKeys == 3

\* Number of times the caller sorts the same Items.
MaxSorts == 2

Keys == 1..MaxKeys

VARIABLES
    Items,      \* ByPrevious.Items: the sequence of messages, reordered by Swap
    root,       \* ByPrevious.root: string form of the root's key, "" at first
    before,     \* ByPrevious.before: pointsToMap, key string -> list of key strings
    pc,         \* where the caller is: new, filled, sorting, sorted, panic, fatal
    panicVal,   \* the value of the panic that is unwinding the caller, "" if none
    si,         \* insertionSort: the outer index i
    sj,         \* insertionSort: the inner index j
    last,       \* the comparator or oracle call made last, with what it returned
    input,      \* Items as they were when FillLookup was called (history)
    sorts,      \* how many times sort.Sort has been called
    output,     \* Items as they were when sort.Sort returned last (history)
    heads,      \* what the last call of Heads returned, empty before it
    lookups     \* index reads of the call made last if it was a hopsToRoot query, else 0

vars == <<Items, root, before, pc, panicVal, si, sj, last, input, sorts, output, heads,
          lookups>>

----------------------------------------------------------------------------
\* Strings and references

\* The empty string, the zero value of the root field.
EmptyString == <<>>

\* MessageRef.Ref: "%" ++ base64(hash) ++ "." ++ algo, with algo "fake"
\* throughout; base64 is one-to-one on the hash bytes.  Never empty.
Ref(hash) == <<"%", hash, ".fake">>

\* fakeMessage.Key().Ref()
KeyRef(m) == Ref(m.key)

\* fakeMessage.Tangle: the previous list as references, nil when it is empty.
Tangle(m) ==
    IF Len(m.prev) = 0
    THEN [isNil |-> TRUE, prev |-> <<>>]
    ELSE [isNil |-> FALSE, prev |-> [i \in 1..Len(m.prev) |-> m.prev[i]]]

\* An empty pointsToMap (make(pointsToMap, n)).
EmptyMap == [r \in {} |-> <<>>]

\* m[k] = v on a map
MapPut(m, k, v) == [r \in (DOMAIN m) \cup {k} |-> IF r = k THEN v ELSE m[r]]

\* What an oracle call returns: a value, or the panic that ends it.
Val(v) == [panic |-> "", v |-> v]
Panic(msg, zero) == [panic |-> msg, v |-> zero]
Failed(r) == r.panic # ""

\* A goroutine whose recursion never returns dies with this fatal error.
StackOverflow == "fatal error: stack overflow"

----------------------------------------------------------------------------
\* FillLookup

\* RefsOf keeping the first previous entry only.
RefsOf_FirstOnly(prev) ==
    [j \in 1..(IF Len(prev) > 1 THEN 1 ELSE Len(prev)) |-> Ref(prev[j])]

\* RefsOf with the copy loop starting at the second entry: refs[0] stays "".
RefsOf_SkipsFirst(prev) ==
    [j \in 1..Len(prev) |-> IF j = 1 THEN EmptyString ELSE Ref(prev[j])]

\* refs[j] = br.Ref() for every previous entry
RefsOf(prev) == [j \in 1..Len(prev) |-> Ref(prev[j])]

\* The loop of FillLookup over Items[k..]: st is <<root, bf>> so far.
RECURSIVE FillLoop(_, _, _, _)
FillLoop(items, k, rt, bf) ==
    IF k > Len(items) THEN [root |-> rt, bf |-> bf]
    ELSE LET m == items[k]
             t == Tangle(m)
         IN  IF t.isNil
             THEN FillLoop(items, k + 1, KeyRef(m), bf)
             ELSE FillLoop(items, k + 1, rt, MapPut(bf, KeyRef(m), RefsOf(t.prev)))

\* NoRootCheck without the check: a set without a root passes.
NoRootCheck_Unchecked(rt) == ""

\* The panic of FillLookup when no root was recorded.
NoRootCheck(rt) == IF rt = EmptyString THEN "no root?!" ELSE ""

FillLookup ==
    /\ pc = "new"
    /\ LET r == FillLoop(Items, 1, root, EmptyMap)
           p == NoRootCheck(r.root)
       IN  /\ root' = r.root
           /\ before' = r.bf
           /\ panicVal' = p
           /\ pc' = IF p = "" THEN "filled" ELSE "panic"
    /\ last' = [op |-> "FillLookup", x |-> EmptyString, y |-> EmptyString,
                 panic |-> panicVal', b |-> FALSE, n |-> 0]
    /\ input' = Items
    /\ lookups' = 0
    /\ UNCHANGED <<Items, si, sj, sorts, output, heads>>

----------------------------------------------------------------------------
\* The oracles.  Both recurse over the before map without a visited set; a
\* call chain longer than the number of keys of the map has met some key
\* twice and, the traversal being deterministic, repeats for ever: the
\* goroutine's stack overflows.  depth counts the frames of the chain.

MaxDepth == Cardinality(DOMAIN before)

RECURSIVE pointsToAt(_, _, _)
RECURSIVE pointsToLoop(_, _, _, _)

\* pointsToLoop without the recursive call: direct previous entries only.
pointsToLoop_DirectOnly(list, k, y, depth) ==
    Val(\E j \in k..Len(list) : list[j] = y)

\* for _, candidate := range pointsTo { ... } from entry k on
pointsToLoop(list, k, y, depth) ==
    IF k > Len(list) THEN Val(FALSE)
    ELSE IF list[k] = y THEN Val(TRUE)
    ELSE LET r == pointsToAt(list[k], y, depth + 1)
         IN  IF Failed(r) THEN r
             ELSE IF r.v THEN Val(TRUE)
             ELSE pointsToLoop(list, k + 1, y, depth)

\* pointsTo(x, y) at recursion depth depth
pointsToAt(x, y, depth) ==
    IF x \notin DOMAIN before THEN Val(FALSE)
    ELSE IF depth > MaxDepth THEN Panic(StackOverflow, FALSE)
    ELSE pointsToLoop(before[x], 1, y, depth)

pointsTo(x, y) == pointsToAt(x, y, 1)

\* sort.Ints on a short slice: ascending insertion.
RECURSIVE InsertInt(_, _)
InsertInt(s, n) ==
    IF Len(s) = 0 THEN <<n>>
    ELSE IF n < s[Len(s)] THEN Append(InsertInt(SubSeq(s, 1, Len(s) - 1), n), s[Len(s)])
    ELSE Append(s, n)

RECURSIVE SortInts(_)
SortInts(s) ==
    IF Len(s) = 0 THEN <<>>
    ELSE InsertInt(SortInts(SubSeq(s, 1, Len(s) - 1)), s[Len(s)])

\* LastOfSorted taking found[0]: the shortest path instead of the longest.
FirstOfSorted(found) == SortInts(found)[1]

\* found[len(found)-1] after sort.Ints(found)
LastOfSorted(found) == SortInts(found)[Len(found)]

RECURSIVE hopsToRootAt(_, _, _)
RECURSIVE hopsLoop(_, _, _, _, _)

\* for _, candidate := range pointsTo { ... } from entry k on, collecting found
hopsLoop(list, k, hop, found, depth) ==
    IF k > Len(list) THEN [panic |-> "", found |-> found]
    ELSE IF list[k] = root THEN hopsLoop(list, k + 1, hop, Append(found, hop + 1), depth)
    ELSE LET h == hopsToRootAt(list[k], hop + 1, depth + 1)
         IN  IF Failed(h) THEN [panic |-> h.panic, found |-> found]
             ELSE IF h.v > 0 THEN hopsLoop(list, k + 1, hop, Append(found, h.v), depth)
             ELSE hopsLoop(list, k + 1, hop, found, depth)

\* hopsToRoot(key, hop) at recursion depth depth
hopsToRootAt(key, hop, depth) ==
    IF key = root THEN Val(hop)
    ELSE IF key \notin DOMAIN before
         THEN Panic("untangled message which isnt root", 0)
    ELSE IF depth > MaxDepth THEN Panic(StackOverflow, 0)
    ELSE LET r == hopsLoop(before[key], 1, hop, <<>>, depth)
         IN  IF r.panic # "" THEN Panic(r.panic, 0)
             ELSE IF Len(r.found) < 1 THEN Panic("not pointing to root?", 0)
             ELSE Val(LastOfSorted(r.found))

\* How often a call hopsToRoot(key, hop) reads the index (bct.before[key],
\* once in every invocation that is not on the root): nothing is cached, so
\* every candidate that is not the root is descended into again.
RECURSIVE hopsLookupsAt(_, _)
RECURSIVE hopsLookupsLoop(_, _, _)

hopsLookupsLoop(list, k, depth) ==
    IF k > Len(list) THEN 0
    ELSE IF list[k] = root THEN hopsLookupsLoop(list, k + 1, depth)
    ELSE hopsLookupsAt(list[k], depth + 1) + hopsLookupsLoop(list, k + 1, depth)

hopsLookupsAt(key, depth) ==
    IF key = root THEN 0
    ELSE IF key \notin DOMAIN before THEN 1
    ELSE IF depth > MaxDepth THEN 1
    ELSE 1 + hopsLookupsLoop(before[key], 1, depth)

hopsLookups(key) == hopsLookupsAt(key, 1)

\* hopsToRoot counting the message itself: off by one.
hopsToRoot_CountsSelf(key, hop) == hopsToRootAt(key, hop + 1, 1)

\* hopsToRoot that starts every count at zero, whatever hop it is given.
hopsToRoot_IgnoresHop(key, hop) == hopsToRootAt(key, 0, 1)

hopsToRoot(key, hop) == hopsToRootAt(key, hop, 1)

\* Less with the depth comparison turned round.
Less_Reversed(i, j) ==
    LET keyI == KeyRef(Items[i + 1])
        keyJ == KeyRef(Items[j + 1])
        pt == pointsTo(keyI, keyJ)
    IN  IF Failed(pt) THEN pt
        ELSE IF pt.v THEN Val(FALSE)
        ELSE LET hops_i == hopsToRoot(keyI, 0)
                 hops_j == hopsToRoot(keyJ, 0)
             IN  IF Failed(hops_i) THEN Panic(hops_i.panic, FALSE)
                 ELSE IF Failed(hops_j) THEN Panic(hops_j.panic, FALSE)
                 ELSE Val(hops_i.v > hops_j.v)

\* Less with <= for <.
Less_LessEq(i, j) ==
    LET keyI == KeyRef(Items[i + 1])
        keyJ == KeyRef(Items[j + 1])
        pt == pointsTo(keyI, keyJ)
    IN  IF Failed(pt) THEN pt
        ELSE IF pt.v THEN Val(FALSE)
        ELSE LET hops_i == hopsToRoot(keyI, 0)
                 hops_j == hopsToRoot(keyJ, 0)
             IN  IF Failed(hops_i) THEN Panic(hops_i.panic, FALSE)
                 ELSE IF Failed(hops_j) THEN Panic(hops_j.panic, FALSE)
                 ELSE Val(hops_i.v <= hops_j.v)

\* Less breaking ties between equal depths by the key.
Less_TieBreak(i, j) ==
    LET keyI == KeyRef(Items[i + 1])
        keyJ == KeyRef(Items[j + 1])
        pt == pointsTo(keyI, keyJ)
    IN  IF Failed(pt) THEN pt
        ELSE IF pt.v THEN Val(FALSE)
        ELSE LET hops_i == hopsToRoot(keyI, 0)
                 hops_j == hopsToRoot(keyJ, 0)
             IN  IF Failed(hops_i) THEN Panic(hops_i.panic, FALSE)
                 ELSE IF Failed(hops_j) THEN Panic(hops_j.panic, FALSE)
                 ELSE Val(hops_i.v < hops_j.v
                          \/ (hops_i.v = hops_j.v /\ Items[i + 1].key < Items[j + 1].key))

\* Less(i, j) on Go indices i, j of Items
Less(i, j) ==
    LET keyI == KeyRef(Items[i + 1])
        keyJ == KeyRef(Items[j + 1])
        pt == pointsTo(keyI, keyJ)
    IN  IF Failed(pt) THEN pt
        ELSE IF pt.v THEN Val(FALSE)
        ELSE LET hops_i == hopsToRoot(keyI, 0)
                 hops_j == hopsToRoot(keyJ, 0)
             IN  IF Failed(hops_i) THEN Panic(hops_i.panic, FALSE)
                 ELSE IF Failed(hops_j) THEN Panic(hops_j.panic, FALSE)
                 ELSE Val(hops_i.v < hops_j.v)

\* Swap assigning one way only: Items[i] = Items[j].
Swap_CopyOnly(i, j) == [Items EXCEPT ![i + 1] = Items[j + 1]]

\* Items after Swap(i, j) on Go indices
Swap(i, j) ==
    [Items EXCEPT ![i + 1] = Items[j + 1], ![j + 1] = Items[i + 1]]

\* Len()
Len_ == Len(Items)

----------------------------------------------------------------------------
\* The message sets handed to the sorter

\* The elements of a set of keys as an ascending list.
RECURSIVE AscendingList(_)
AscendingList(S) ==
    IF S = {} THEN <<>>
    ELSE LET mx == CHOOSE a \in S : \A b \in S : b <= a
         IN  Append(AscendingList(S \ {mx}), mx)

\* The orders in which the messages 1..n can be handed over.
Orders(n) == {o \in [1..n -> 1..n] : \A a, b \in 1..n : a # b => o[a] # o[b]}

\* n messages with the distinct keys 1..n, handed over in the order o; the
\* message with key k lists the keys of P[k] as its previous messages.
Input(n, o, P) == [i \in 1..n |-> [key |-> o[i], prev |-> AscendingList(P[o[i]])]]

\* The previous sets: any set of other keys (a key that is not among the n
\* messages is an unknown reference; sets that close a cycle between
\* messages are included).
PrevSets(n) == {P \in [1..n -> SUBSET Keys] : \A k \in 1..n : k \notin P[k]}

NoCall == [op |-> "none", x |-> EmptyString, y |-> EmptyString,
           panic |-> "", b |-> FALSE, n |-> 0]

\* sorter := refs.ByPrevious{Items: tp}: every field but Items is zero
NewSorter ==
    /\ root = EmptyString
    /\ before = EmptyMap
    /\ pc = "new"
    /\ panicVal = ""
    /\ si = 0
    /\ sj = 0
    /\ last = NoCall
    /\ input = <<>>
    /\ sorts = 0
    /\ output = <<>>
    /\ heads = <<>>
    /\ lookups = 0

Init ==
    /\ \E n \in 1..MaxKeys : \E o \in Orders(n) : \E P \in PrevSets(n) :
          Items = Input(n, o, P)
    /\ NewSorter

----------------------------------------------------------------------------
\* The caller: FillLookup, the oracle called directly (as the helper test
\* does), then sort.Sort.  For at most 12 elements sort.Sort is
\* insertionSort(data, 0, n):
\*     for i := 1; i < n; i++ {
\*         for j := i; j > 0 && data.Less(j, j-1); j-- { data.Swap(j, j-1) }
\*     }

\* What a failed call does to the caller.
Unwound(p) == IF p = StackOverflow THEN "fatal" ELSE "panic"

\* sorter.hopsToRoot(key, 0) called by the caller after FillLookup
HopsToRootCall ==
    /\ pc = "filled"
    /\ \E k \in 1..Len(Items) :
          LET h == hopsToRoot(KeyRef(Items[k]), 0)
          IN  /\ last' = [op |-> "hopsToRoot", x |-> KeyRef(Items[k]), y |-> EmptyString,
                          panic |-> h.panic, b |-> FALSE, n |-> h.v]
              /\ panicVal' = h.panic
              /\ pc' = IF Failed(h) THEN Unwound(h.panic) ELSE pc
              /\ lookups' = hopsLookups(KeyRef(Items[k]))
    /\ UNCHANGED <<Items, root, before, si, sj, input, sorts, output, heads>>

\* sort.Sort(sorter): n := data.Len(), then the insertion sort starts at i = 1
SortBegin ==
    /\ pc = "filled"
    /\ pc' = "sorting"
    /\ si' = 1
    /\ sj' = 1
    /\ sorts' = sorts + 1
    /\ UNCHANGED <<Items, root, before, panicVal, last, input, output, heads, lookups>>

LessCall(i, j, r) ==
    [op |-> "Less", x |-> KeyRef(Items[i + 1]), y |-> KeyRef(Items[j + 1]),
     panic |-> r.panic, b |-> r.v, n |-> 0]

\* inner loop: Less(j, j-1) holds, Swap(j, j-1), j--
InsertionSwap ==
    /\ pc = "sorting"
    /\ si < Len_
    /\ sj > 0
    /\ LET r == Less(sj, sj - 1)
       IN  /\ ~Failed(r)
           /\ r.v
           /\ last' = LessCall(sj, sj - 1, r)
    /\ Items' = Swap(sj, sj - 1)
    /\ sj' = sj - 1
    /\ lookups' = 0
    /\ UNCHANGED <<root, before, pc, panicVal, si, input, sorts, output, heads>>

\* inner loop ends (j = 0 or Less(j, j-1) is false): i++, j := i
InsertionNext ==
    /\ pc = "sorting"
    /\ si < Len_
    /\ \/ /\ sj = 0
          /\ last' = last
       \/ /\ sj > 0
          /\ LET r == Less(sj, sj - 1)
             IN  /\ ~Failed(r)
                 /\ ~r.v
                 /\ last' = LessCall(sj, sj - 1, r)
    /\ si' = si + 1
    /\ sj' = si + 1
    /\ lookups' = IF sj = 0 THEN lookups ELSE 0
    /\ UNCHANGED <<Items, root, before, pc, panicVal, input, sorts, output, heads>>

\* Less(j, j-1) panics, or never returns: the sort is abandoned
InsertionPanic ==
    /\ pc = "sorting"
    /\ si < Len_
    /\ sj > 0
    /\ LET r == Less(sj, sj - 1)
       IN  /\ Failed(r)
           /\ last' = LessCall(sj, sj - 1, r)
           /\ panicVal' = r.panic
           /\ pc' = Unwound(r.panic)
    /\ lookups' = 0
    /\ UNCHANGED <<Items, root, before, si, sj, input, sorts, output, heads>>

\* outer loop ends: sort.Sort returns
SortReturn ==
    /\ pc = "sorting"
    /\ si >= Len_
    /\ pc' = "sorted"
    /\ output' = Items
    /\ UNCHANGED <<Items, root, before, panicVal, si, sj, last, input, sorts, heads, lookups>>

\* sort.Sort(sorter) once more, on the Items the sort before returned
SortAgain ==
    /\ pc = "sorted"
    /\ sorts < MaxSorts
    /\ pc' = "sorting"
    /\ si' = 1
    /\ sj' = 1
    /\ sorts' = sorts + 1
    /\ UNCHANGED <<Items, root, before, panicVal, last, input, output, heads, lookups>>

----------------------------------------------------------------------------
\* Heads.  The test suite calls sorter.Heads() after the sort; the method is
\* not among the sources at hand and is taken from its specification: the
\* full identity set (the keys of the index and the root) less every
\* identity that appears in a value of the index, in ascending byte order of
\* the identity.

Identities == DOMAIN before \cup {root}

Targets == UNION {{before[x][j] : j \in 1..Len(before[x])} : x \in DOMAIN before}

\* the bytes of the identity r
HashOf(r) == r[2]

\* HeadBefore the other way round: descending order.
HeadBefore_Descending(a, b) == HashOf(b) <= HashOf(a)

\* a comes no later than b in the order of the result
HeadBefore(a, b) == HashOf(a) <= HashOf(b)

RECURSIVE InOrder(_)
InOrder(S) ==
    IF S = {} THEN <<>>
    ELSE LET mx == CHOOSE a \in S : \A b \in S : HeadBefore(b, a)
         IN  Append(InOrder(S \ {mx}), mx)

Heads == InOrder(Identities \ Targets)

\* h := sorter.Heads()
HeadsCall ==
    /\ pc = "sorted"
    /\ heads' = Heads
    /\ last' = [op |-> "Heads", x |-> EmptyString, y |-> EmptyString,
                 panic |-> "", b |-> FALSE, n |-> Len(Heads)]
    /\ lookups' = 0
    /\ UNCHANGED <<Items, root, before, pc, panicVal, si, sj, input, sorts, output>>

----------------------------------------------------------------------------
\* A caller that indexes whatever set it was handed and sorts it, more than
\* once.
Next ==
    \/ FillLookup
    \/ SortBegin
    \/ InsertionSwap
    \/ InsertionNext
    \/ InsertionPanic
    \/ SortReturn
    \/ SortAgain

Spec == Init /\ [][Next]_vars

----------------------------------------------------------------------------
\* The tangle as a graph, read off the messages themselves (not off the
\* index the sorter built)

Max(S) == CHOOSE a \in S : \A b \in S : b <= a

MsgKeys == {Items[i].key : i \in 1..Len(Items)}

MsgOf(k) == Items[CHOOSE i \in 1..Len(Items) : Items[i].key = k]

\* the previous set of the message with key k
PrevOf(k) == {MsgOf(k).prev[j] : j \in 1..Len(MsgOf(k).prev)}

\* the messages with an empty previous list
Rootless == {Items[i].key : i \in {j \in 1..Len(Items) : Len(Items[j].prev) = 0}}

\* the keys reached from k over one or more previous edges between messages
RECURSIVE AncestorsIn(_, _)
AncestorsIn(k, n) ==
    IF n = 0 THEN {}
    ELSE LET A == AncestorsIn(k, n - 1)
         IN  PrevOf(k) \cup UNION {PrevOf(a) : a \in A \cap MsgKeys}

Ancestors(k) == AncestorsIn(k, Len(Items))

DependsOn(x, y) == y \in Ancestors(x)

\* exactly one root, every previous entry present in the set, no cycle
ValidTangle ==
    /\ Cardinality(Rootless) = 1
    /\ \A k \in MsgKeys : PrevOf(k) \subseteq MsgKeys
    /\ \A k \in MsgKeys : k \notin Ancestors(k)

TheRoot == CHOOSE k \in Rootless : TRUE

\* the paths that leave x over at most n previous edges between messages,
\* each a list of keys
RECURSIVE PathsFrom(_, _)
PathsFrom(x, n) ==
    IF n = 0 THEN {<<x>>}
    ELSE LET P == PathsFrom(x, n - 1)
         IN  P \cup UNION {{Append(p, q) : q \in PrevOf(p[Len(p)]) \cap MsgKeys} : p \in P}

\* the paths from x down to the root (on a valid tangle no path has more
\* edges than there are messages)
PathsToRoot(x) == {p \in PathsFrom(x, Len(Items)) : p[Len(p)] = TheRoot}

\* the number of edges on the longest path from x to the root
LongestPath(x) == Max({Len(p) - 1 : p \in PathsToRoot(x)})

\* The callers of the test suite: the set handed over is a tangle; after
\* FillLookup the oracle is asked directly, and the set is sorted.  (That no
\* comparison fails on a tangle is part of C1 and C6.)
InitTangle == Init /\ ValidTangle

NextTangle ==
    \/ FillLookup
    \/ HopsToRootCall
    \/ SortBegin
    \/ InsertionSwap
    \/ InsertionNext
    \/ SortReturn

SpecTangle == InitTangle /\ [][NextTangle]_vars

----------------------------------------------------------------------------
\* The tangles of the branch tests, shuffled, indexed, sorted and asked for
\* their heads.

\* the messages msgs handed over in the order o
Shuffled(msgs, o) == [i \in 1..Len(msgs) |-> msgs[o[i]]]

\* The keys of the open-merge tests, numbered in the byte order of their
\* names: a1 = 1, a2 = 2, b1 = 3, b2 = 4, c1 = 5, c2 = 6, d1 = 7.
\* TestBranchMergeOpen: b1, c1, d1 fork from a1; c2 merges b1 and c1
MergeOpen ==
    << [key |-> 1, prev |-> <<>>],
       [key |-> 3, prev |-> <<1>>],
       [key |-> 5, prev |-> <<1>>],
       [key |-> 7, prev |-> <<1>>],
       [key |-> 6, prev |-> <<3, 5>>] >>

\* TestBranchMergeOpenTwo: b2 on top of d1
MergeOpenTwo == Append(MergeOpen, [key |-> 4, prev |-> <<7>>])

\* TestBranchMergeMulti: a2 merges c2 and d1
MergeMulti == Append(MergeOpen, [key |-> 2, prev |-> <<6, 7>>])

InitMerges ==
    /\ \E msgs \in {MergeOpen, MergeOpenTwo, MergeMulti} :
          \E o \in Orders(Len(msgs)) : Items = Shuffled(msgs, o)
    /\ NewSorter

\* any tangle of at most MaxKeys messages, or one of the open merges
InitHeads == InitTangle \/ InitMerges

NextHeads ==
    \/ FillLookup
    \/ SortBegin
    \/ InsertionSwap
    \/ InsertionNext
    \/ SortReturn
    \/ HeadsCall

SpecHeads == InitHeads /\ [][NextHeads]_vars

\* TestBranchConcurrent and TestBranchMerge, generalised: a root (key 1),
\* two siblings on it (keys 2 and 3) and, up to MaxKeys + 1 messages in all,
\* further messages whose previous sets are any non-empty sets of the
\* messages before them.  With four messages these are the diamond, a third
\* sibling, and the other ways of putting one message on top of the fork.
RECURSIVE ForkPrevSets(_)
ForkPrevSets(n) ==
    IF n <= 3 THEN {<<{}, {1}, {1}>>}
    ELSE {Append(P, S) : P \in ForkPrevSets(n - 1), S \in (SUBSET (1..(n - 1))) \ {{}}}

InitFork ==
    /\ \E o \in Orders(MaxKeys + 1) : \E P \in ForkPrevSets(MaxKeys + 1) :
          Items = Input(MaxKeys + 1, o, P)
    /\ NewSorter

SpecFork == InitFork /\ [][NextHeads]_vars

\* the index has been built and no call has failed
Indexed == pc \in {"filled", "sorting", "sorted"}

\* FillLookup has just returned.  The oracles and Less read Items, root and
\* before only; every order of every set is handed over as an input, so the
\* states FillLookup leaves hold every index with every order of Items.
JustIndexed == pc = "filled" /\ last.op = "FillLookup"

\* the key a reference stands for
KeyOfRef(r) == CHOOSE k \in Keys : Ref(k) = r

\* the position (Go index) of the message with key k in Items
IndexOf(k) == (CHOOSE i \in 1..Len(Items) : Items[i].key = k) - 1

\* the messages form a chain c[1] <- c[2] <- ... <- c[n], c[1] the root
IsChain(c) ==
    /\ PrevOf(c[1]) = {}
    /\ \A k \in 2..Len(Items) : MsgOf(c[k]).prev = <<c[k - 1]>>

Chains ==
    IF \E i \in 1..Len(Items) : Len(Items[i].prev) > 1 THEN {}
    ELSE {c \in Orders(Len(Items)) : IsChain(c)}

\* the keys of a sequence of messages
KeysOf(items) == [i \in 1..Len(items) |-> items[i].key]

----------------------------------------------------------------------------
\* C1: on a valid tangle, in whatever order the messages were handed over,
\* once FillLookup and sort.Sort have run every message stands after all the
\* messages it points to: pointsTo(x, y) implies index(y) < index(x).
C1_SortedRespectsCausality ==
    /\ (pc = "sorted" /\ ValidTangle) =>
           \A i, j \in 1..Len(Items) :
               (pointsTo(KeyRef(Items[i]), KeyRef(Items[j])).v
                   \/ DependsOn(Items[i].key, Items[j].key)) => j < i
    /\ (pc = "sorting" /\ si < Len_ /\ sj > 0) => ~Failed(Less(sj, sj - 1))
    /\ pc \notin {"panic", "fatal"}

\* a valid tangle that was handed over with a message ahead of one it points
\* to has been sorted
C1_Witness ==
    /\ pc = "sorted"
    /\ ValidTangle
    /\ Len(Items) = MaxKeys
    /\ \E i, j \in 1..Len(input) :
          i < j /\ pointsTo(KeyRef(input[i]), KeyRef(input[j])).v

\* C2: a chain m1 <- m2 <- ... <- mn handed over in any order is sorted to
\* exactly m1, m2, ..., mn.
C2_ChainSortedExactly ==
    pc = "sorted" => \A c \in Chains : KeysOf(Items) = c

\* a chain of MaxKeys messages handed over out of order has been sorted
C2_Witness ==
    /\ pc = "sorted"
    /\ Len(Items) = MaxKeys
    /\ \E c \in Chains : KeysOf(input) # c /\ KeysOf(input)[1] = c[MaxKeys]

\* C3: in a chain the k-th message is k-1 hops from the root, in an index
\* built from any order of Items: for the oracle as such, and for every call
\* the caller made.
C3_ChainHops ==
    /\ JustIndexed =>
           \A c \in Chains :
               \A k \in 1..Len(Items) : hopsToRoot(Ref(c[k]), 0) = Val(k - 1)
    /\ last.op = "hopsToRoot" =>
           \A c \in Chains :
               \A k \in 1..Len(Items) :
                   last.x = Ref(c[k]) => (last.panic = "" /\ last.n = k - 1)

\* the tip of a chain handed over out of order was asked for its hops
C3_Witness ==
    /\ pc = "filled"
    /\ Len(Items) = MaxKeys
    /\ \E c \in Chains :
          /\ KeysOf(input) # c
          /\ last.op = "hopsToRoot"
          /\ last.x = Ref(c[MaxKeys])
          /\ last.n = MaxKeys - 1

\* C4: on a valid tangle hopsToRoot(x, 0) is the number of edges on the
\* longest path from x to the root: 0 for the root, and one more than the
\* greatest hopsToRoot among the previous messages of x otherwise.
C4_HopsIsLongestPath ==
    /\ (JustIndexed /\ ValidTangle) =>
           \A x \in MsgKeys :
               /\ hopsToRoot(Ref(x), 0) = Val(LongestPath(x))
               /\ x = TheRoot => hopsToRoot(Ref(x), 0).v = 0
               /\ x # TheRoot =>
                      hopsToRoot(Ref(x), 0).v =
                          1 + Max({hopsToRoot(Ref(p), 0).v : p \in PrevOf(x)})
    /\ (last.op = "hopsToRoot" /\ ValidTangle) =>
           (last.panic = "" /\ last.n = LongestPath(KeyOfRef(last.x)))

\* a message with a short and a long path to the root: the long one counts
C4_Witness ==
    /\ pc = "filled"
    /\ ValidTangle
    /\ \E x \in MsgKeys :
          /\ TheRoot \in PrevOf(x)
          /\ hopsToRoot(Ref(x), 0).v >= 2
          /\ last.op = "hopsToRoot" /\ last.x = Ref(x) /\ last.n >= 2

----------------------------------------------------------------------------
\* The index as a graph, read off the before map by closure

\* every string that can be asked about: the keys' references and ""
AllRefs == {Ref(k) : k \in Keys} \cup {EmptyString}

IndexPrev(x) ==
    IF x \in DOMAIN before THEN {before[x][j] : j \in 1..Len(before[x])} ELSE {}

RECURSIVE IndexReachIn(_, _)
IndexReachIn(x, n) ==
    IF n = 0 THEN {}
    ELSE LET A == IndexReachIn(x, n - 1)
         IN  IndexPrev(x) \cup UNION {IndexPrev(a) : a \in A}

\* what x reaches over one or more edges of the index
IndexReach(x) == IndexReachIn(x, Cardinality(DOMAIN before))

AcyclicIndex == \A x \in DOMAIN before : x \notin IndexReach(x)

\* C5: on an acyclic index pointsTo(x, y) is true exactly when y is reached
\* from x over one or more previous edges; pointsTo(root, y) is false for
\* every y, and on a valid tangle every other message points to the root.
C5_PointsToIsReachability ==
    (last.op = "FillLookup" /\ AcyclicIndex) =>
        /\ \A x \in AllRefs :
               LET R == IndexReach(x)
               IN  \A y \in AllRefs : pointsTo(x, y) = Val(y \in R)
        /\ \A y \in AllRefs : ~pointsTo(root, y).v
        /\ ValidTangle =>
               /\ \A x \in MsgKeys \ {TheRoot} : pointsTo(Ref(x), root).v
               /\ \A x, y \in MsgKeys :
                      pointsTo(Ref(x), Ref(y)).v <=> DependsOn(x, y)

\* an acyclic index of MaxKeys messages in which some message reaches
\* another over two edges or more only
C5_Witness ==
    /\ last.op = "FillLookup"
    /\ AcyclicIndex
    /\ Len(Items) = MaxKeys
    /\ \E x, y \in AllRefs : pointsTo(x, y).v /\ y \notin IndexPrev(x)

GoIndices == 0..(Len_ - 1)

\* Less on every pair of indices of Items, computed once: the entry for the
\* Go indices i, j is LessTable[i + 1][j + 1]
RECURSIVE LessRow(_, _)
LessRow(i, n) == IF n = 0 THEN <<>> ELSE Append(LessRow(i, n - 1), Less(i, n - 1))

RECURSIVE LessRows(_)
LessRows(n) == IF n = 0 THEN <<>> ELSE Append(LessRows(n - 1), LessRow(n - 1, Len_))

LessTable == LessRows(Len_)

\* a comparator table t is a strict weak ordering
StrictWeakOrder(t) ==
    LET lt(i, j) == t[i + 1][j + 1].v
        inc(i, j) == ~lt(i, j) /\ ~lt(j, i)
    IN  /\ \A i \in GoIndices : ~lt(i, i)
        /\ \A i, j \in GoIndices : lt(i, j) => ~lt(j, i)
        /\ \A i, j, k \in GoIndices : (lt(i, j) /\ lt(j, k)) => lt(i, k)
        /\ \A i, j, k \in GoIndices : (inc(i, j) /\ inc(j, k)) => inc(i, k)

C7_LessDefinition ==
    /\ (JustIndexed /\ ValidTangle) =>
           \A i, j \in GoIndices :
               LET keyI == KeyRef(Items[i + 1])
                   keyJ == KeyRef(Items[j + 1])
                   lt == Less(i, j)
               IN  /\ lt = Val(/\ ~pointsTo(keyI, keyJ).v
                               /\ hopsToRoot(keyI, 0).v < hopsToRoot(keyJ, 0).v)
                   /\ DependsOn(Items[i + 1].key, Items[j + 1].key) => ~lt.v
    /\ (last.op = "Less" /\ ValidTangle) =>
           LET a == KeyOfRef(last.x)
               b == KeyOfRef(last.y)
           IN  /\ last.panic = ""
               /\ last.b = (~DependsOn(a, b) /\ LongestPath(a) < LongestPath(b))

\* the sort compared a message with a deeper one that it does not point to,
\* and Less said yes
C7_Witness ==
    /\ pc = "sorting"
    /\ ValidTangle
    /\ last.op = "Less"
    /\ last.b
    /\ ~pointsTo(last.x, last.y).v
    /\ hopsToRoot(last.x, 0).v < hopsToRoot(last.y, 0).v

\* the oracles' answers make x and y concurrent siblings
Siblings(x, y) ==
    LET hops_x == hopsToRoot(x, 0)
        hops_y == hopsToRoot(y, 0)
    IN  /\ x # y
        /\ ~Failed(hops_x)
        /\ ~Failed(hops_y)
        /\ hops_x.v = hops_y.v
        /\ pointsTo(x, y) = Val(FALSE)
        /\ pointsTo(y, x) = Val(FALSE)

\* C8: two different messages with equal hops to the root, neither pointing
\* to the other, are equivalent: Less(i, j) and Less(j, i) are both false,
\* and so was every such comparison the sort made.
C8_SiblingsEquivalent ==
    /\ JustIndexed =>
           \A i, j \in GoIndices :
               Siblings(KeyRef(Items[i + 1]), KeyRef(Items[j + 1]))
                   => (Less(i, j) = Val(FALSE) /\ Less(j, i) = Val(FALSE))
    /\ (last.op = "Less" /\ Siblings(last.x, last.y)) =>
           (last.panic = "" /\ ~last.b)

\* the sort compared two siblings and left them where they were
C8_Witness ==
    /\ pc = "sorting"
    /\ ValidTangle
    /\ last.op = "Less"
    /\ ~last.b
    /\ Siblings(last.x, last.y)

----------------------------------------------------------------------------
\* Index construction on sets without a root, or with several

\* the index holding every message of Items with its previous list
FullIndex ==
    /\ DOMAIN before = {Ref(k) : k \in MsgKeys}
    /\ \A k \in MsgKeys : before[Ref(k)] = RefsOf(MsgOf(k).prev)

C10_MultipleRootsRejected ==
    (pc # "new" /\ Cardinality(Rootless) > 1) =>
        /\ ~Indexed
        /\ root \notin {Ref(k) : k \in Rootless}

----------------------------------------------------------------------------
\* Sets that are not tangles: unknown references, cycles

\* the identities named in a previous list that are the key of no message
UnknownRefs == UNION {PrevOf(k) : k \in MsgKeys} \ MsgKeys

\* the messages that lie on a cycle of previous edges
OnCycle == {k \in MsgKeys : k \in Ancestors(k)}

\* C11: when the set has its one root and no cycle but some previous list
\* names an identity that is the key of no message, ordering the set fails
\* with an error: the caller is not unwound by a panic, and the sort does not
\* run to completion with the unknown identity taken as unreachable.
C11_UnknownReferenceIsError ==
    (Cardinality(Rootless) = 1 /\ OnCycle = {} /\ UnknownRefs # {}) =>
        /\ pc \notin {"panic", "fatal"}
        /\ panicVal = ""
        /\ pc # "sorted"

\* C12: on a set whose previous edges close a cycle, every call of the
\* oracles and of the comparator returns (with an error); none recurses
\* until the stack is exhausted.
C12_CycleTerminates ==
    OnCycle # {} =>
        /\ pc # "fatal"
        /\ last.panic # StackOverflow

\* C13: once FillLookup has returned, exactly one message of Items has an
\* empty previous list, it is the recorded root, and every other message
\* reaches it over previous edges; a set that is not so has been rejected by
\* FillLookup itself.
C13_IndexedIsTangle ==
    (Indexed /\ last.op = "FillLookup") =>
        /\ Cardinality(Rootless) = 1
        /\ root = Ref(TheRoot)
        /\ \A k \in MsgKeys \ Rootless : TheRoot \in Ancestors(k)

----------------------------------------------------------------------------
\* The index of a valid tangle

\* the previous list of message k as identities, read off the message
PrevIdentities(k) == [j \in 1..Len(MsgOf(k).prev) |-> Ref(MsgOf(k).prev[j])]

\* C14: after FillLookup on a valid tangle the index has a key for exactly
\* every message but the root, the value kept for a message is exactly its
\* list of previous identities, and the root (the recorded one, which is the
\* one message without previous entries) is not a key of the index.
C14_IndexOfNonRoots ==
    (Indexed /\ ValidTangle) =>
        /\ DOMAIN before = {Ref(k) : k \in MsgKeys \ Rootless}
        /\ \A k \in MsgKeys \ Rootless : before[Ref(k)] = PrevIdentities(k)
        /\ root = Ref(TheRoot)
        /\ root \notin DOMAIN before

\* FillLookup ran over a tangle of MaxKeys messages, one of them a merge
C14_Witness ==
    /\ JustIndexed
    /\ ValidTangle
    /\ Len(Items) = MaxKeys
    /\ \E k \in MsgKeys : Cardinality(PrevOf(k)) > 1

----------------------------------------------------------------------------
\* Forks and merges

\* the messages whose only previous entry is the root
RootSiblings == {k \in MsgKeys : PrevOf(k) = {TheRoot}}

\* the messages whose previous set contains every sibling
MergesOfSiblings == {m \in MsgKeys : RootSiblings \subseteq PrevOf(m)}

\* C15: for a root and two or more siblings whose only previous entry is the
\* root, in whatever order the set was handed over, the sorted Items have the
\* root at index 0 and every sibling before any message whose previous set
\* contains all of the siblings.
C15_SiblingsBetweenRootAndMerge ==
    (pc = "sorted" /\ ValidTangle /\ Cardinality(RootSiblings) >= 2) =>
        /\ IndexOf(TheRoot) = 0
        /\ \A s \in RootSiblings : \A m \in MergesOfSiblings : IndexOf(s) < IndexOf(m)

\* the set was handed over with a merge of the siblings first and the root
\* last, and has been sorted
C15_Witness ==
    /\ pc = "sorted"
    /\ ValidTangle
    /\ Cardinality(RootSiblings) >= 2
    /\ input[1].key \in MergesOfSiblings
    /\ input[Len(input)].key = TheRoot

\* the diamond of TestBranchMerge: p1, then a1 and b1 on p1, then p2 on both
IsDiamond ==
    /\ ValidTangle
    /\ Len(Items) = 4
    /\ Cardinality(RootSiblings) = 2
    /\ \E m \in MsgKeys : PrevOf(m) = RootSiblings

TheMerge == CHOOSE m \in MsgKeys : PrevOf(m) = RootSiblings

\* C16: in the diamond, in whatever order it was handed over, the sorted
\* Items have the root p1 first and the merge p2 last, and Heads returns the
\* one-element list [p2].
C16_DiamondSortedAndHead ==
    (pc = "sorted" /\ IsDiamond) =>
        /\ Items[1].key = TheRoot
        /\ Items[Len(Items)].key = TheMerge
        /\ last.op = "Heads" => heads = <<Ref(TheMerge)>>

\* the diamond was handed over with p2 first, sorted, and asked for its heads
C16_Witness ==
    /\ pc = "sorted"
    /\ IsDiamond
    /\ input[1].key = TheMerge
    /\ last.op = "Heads"
    /\ heads # <<>>

----------------------------------------------------------------------------
\* Heads

\* the messages named in no other message's previous list
Unreferenced == {k \in MsgKeys : \A m \in MsgKeys \ {k} : k \notin PrevOf(m)}

\* the elements of a sequence
Elements(q) == {q[j] : j \in 1..Len(q)}

\* Items are the messages msgs, in some order
ItemsAre(msgs) == Elements(Items) = Elements(msgs)

\* C17: on a valid tangle Heads returns exactly the messages whose identity
\* is in no other message's previous list, each of them once, whatever the
\* order of Items was: {c2, d1} for the fork b1, c1, d1 from a1 with c2
\* merging b1 and c1, {b2, c2} once b2 is put on d1, {a2} once a2 merges c2
\* and d1 (a2 = 2, b2 = 4, c2 = 6, d1 = 7).
C17_HeadsAreUnreferenced ==
    (last.op = "Heads" /\ ValidTangle) =>
        /\ Elements(heads) = {Ref(k) : k \in Unreferenced}
        /\ Len(heads) = Cardinality(Unreferenced)
        /\ ItemsAre(MergeOpen) => Elements(heads) = {Ref(6), Ref(7)}
        /\ ItemsAre(MergeOpenTwo) => Elements(heads) = {Ref(4), Ref(6)}
        /\ ItemsAre(MergeMulti) => Elements(heads) = {Ref(2)}

\* the second open merge was handed over with b2 first and the root last,
\* sorted, and asked for its heads
C17_Witness ==
    /\ last.op = "Heads"
    /\ ItemsAre(MergeOpenTwo)
    /\ input[1].key = 4
    /\ input[Len(input)].key = 1
    /\ Len(heads) = 2

\* C18: on a valid tangle Heads returns at least one message; it returns
\* exactly one when exactly one message is named in no other message's
\* previous list; for a tangle that is its root alone it returns the root.
C18_HeadsNonEmpty ==
    (last.op = "Heads" /\ ValidTangle) =>
        /\ Len(heads) >= 1
        /\ Cardinality(Unreferenced) = 1 => Len(heads) = 1
        /\ Len(Items) = 1 => (heads = <<KeyRef(Items[1])>> /\ heads = <<root>>)

\* a tangle of MaxKeys messages with a single unreferenced message was
\* sorted and asked for its heads
C18_Witness ==
    /\ last.op = "Heads"
    /\ ValidTangle
    /\ Len(Items) = MaxKeys
    /\ Cardinality(Unreferenced) = 1
    /\ Len(heads) = 1

\* the identities of the unreferenced messages in ascending order of their
\* bytes: a function of the set of messages, not of the order of Items
HeadsInByteOrder ==
    [j \in 1..Cardinality(Unreferenced) |-> Ref(AscendingList(Unreferenced)[j])]

----------------------------------------------------------------------------
\* Sorting again

----------------------------------------------------------------------------
\* One set, two orders: the caller shuffles the sorted Items (as the tests do
\* before sorting) and sorts them again over the same index.

\* rand.Shuffle(len(msgs), ...) on the Items, then sort.Sort(sorter)
ShuffleAndSort ==
    /\ pc = "sorted"
    /\ sorts < MaxSorts
    /\ \E o \in Orders(Len(Items)) : Items' = Shuffled(Items, o)
    /\ pc' = "sorting"
    /\ si' = 1
    /\ sj' = 1
    /\ sorts' = sorts + 1
    /\ UNCHANGED <<root, before, panicVal, last, input, output, heads, lookups>>

NextShuffle ==
    \/ FillLookup
    \/ SortBegin
    \/ InsertionSwap
    \/ InsertionNext
    \/ SortReturn
    \/ ShuffleAndSort

SpecShuffle == InitTangle /\ [][NextShuffle]_vars

\* a later sort has run through its loops and is about to return
LaterSortDone == sorts >= 2 /\ pc = "sorting" /\ si >= Len_

\* C21: the sort is deterministic in the message set: for a valid tangle,
\* the sort of any other order of the same messages ends with the sequence
\* the sort before returned.
C21_SortDeterministic ==
    LaterSortDone => Items = output

----------------------------------------------------------------------------
\* ByBranches: the sorter of tangles.go, which reads the previous messages
\* from Branches() where ByPrevious reads them from Tangle(name).  Its
\* methods are written over a sorter value s = [Items, root, before].

\* fakeMessage.Branches: the branches as references, nil when there are none.
Branches(m) ==
    IF Len(m.prev) = 0
    THEN [isNil |-> TRUE, branches |-> <<>>]
    ELSE [isNil |-> FALSE, branches |-> [i \in 1..Len(m.prev) |-> m.prev[i]]]

\* The loop of ByBranches.FillLookup over items[k..].
RECURSIVE BrFillLoop(_, _, _, _)
BrFillLoop(items, k, rt, bf) ==
    IF k > Len(items) THEN [root |-> rt, bf |-> bf]
    ELSE LET m == items[k]
             b == Branches(m)
         IN  IF b.isNil
             THEN BrFillLoop(items, k + 1, Ref(m.key), bf)
             ELSE BrFillLoop(items, k + 1, rt,
                             MapPut(bf, Ref(m.key),
                                    [j \in 1..Len(b.branches) |-> Ref(b.branches[j])]))

\* ByBranches.FillLookup on the sorter s: the sorter afterwards, and the
\* panic it ends in ("" if none)
BrFillLookup(s) ==
    LET r == BrFillLoop(s.Items, 1, s.root, EmptyMap)
    IN  [Items |-> s.Items, root |-> r.root, before |-> r.bf,
         panic |-> IF r.root = EmptyString THEN "no root?!" ELSE ""]

RECURSIVE BrPointsToAt(_, _, _, _)
RECURSIVE BrPointsToLoop(_, _, _, _, _)

BrPointsToLoop(s, list, k, y, depth) ==
    IF k > Len(list) THEN Val(FALSE)
    ELSE IF list[k] = y THEN Val(TRUE)
    ELSE LET r == BrPointsToAt(s, list[k], y, depth + 1)
         IN  IF Failed(r) THEN r
             ELSE IF r.v THEN Val(TRUE)
             ELSE BrPointsToLoop(s, list, k + 1, y, depth)

BrPointsToAt(s, x, y, depth) ==
    IF x \notin DOMAIN s.before THEN Val(FALSE)
    ELSE IF depth > Cardinality(DOMAIN s.before) THEN Panic(StackOverflow, FALSE)
    ELSE BrPointsToLoop(s, s.before[x], 1, y, depth)

\* ByBranches.pointsTo(x, y)
BrPointsTo(s, x, y) == BrPointsToAt(s, x, y, 1)

RECURSIVE BrHopsToRootAt(_, _, _, _)
RECURSIVE BrHopsLoop(_, _, _, _, _, _)

BrHopsLoop(s, list, k, hop, found, depth) ==
    IF k > Len(list) THEN [panic |-> "", found |-> found]
    ELSE IF list[k] = s.root
         THEN BrHopsLoop(s, list, k + 1, hop, Append(found, hop + 1), depth)
    ELSE LET h == BrHopsToRootAt(s, list[k], hop + 1, depth + 1)
         IN  IF Failed(h) THEN [panic |-> h.panic, found |-> found]
             ELSE IF h.v > 0 THEN BrHopsLoop(s, list, k + 1, hop, Append(found, h.v), depth)
             ELSE BrHopsLoop(s, list, k + 1, hop, found, depth)

BrHopsToRootAt(s, key, hop, depth) ==
    IF key = s.root THEN Val(hop)
    ELSE IF key \notin DOMAIN s.before
         THEN Panic("untangled message which isnt root", 0)
    ELSE IF depth > Cardinality(DOMAIN s.before) THEN Panic(StackOverflow, 0)
    ELSE LET r == BrHopsLoop(s, s.before[key], 1, hop, <<>>, depth)
         IN  IF r.panic # "" THEN Panic(r.panic, 0)
             ELSE IF Len(r.found) < 1 THEN Panic("not pointing to root?", 0)
             ELSE Val(LastOfSorted(r.found))

\* ByBranches.hopsToRoot(key, hop)
BrHopsToRoot(s, key, hop) == BrHopsToRootAt(s, key, hop, 1)

\* ByBranches.Less(i, j) on Go indices
BrLess(s, i, j) ==
    LET keyI == Ref(s.Items[i + 1].key)
        keyJ == Ref(s.Items[j + 1].key)
        pt == BrPointsTo(s, keyI, keyJ)
    IN  IF Failed(pt) THEN pt
        ELSE IF pt.v THEN Val(FALSE)
        ELSE LET hops_i == BrHopsToRoot(s, keyI, 0)
                 hops_j == BrHopsToRoot(s, keyJ, 0)
             IN  IF Failed(hops_i) THEN Panic(hops_i.panic, FALSE)
                 ELSE IF Failed(hops_j) THEN Panic(hops_j.panic, FALSE)
                 ELSE Val(hops_i.v < hops_j.v)

\* ByBranches.Swap(i, j): the Items afterwards
BrSwap(s, i, j) ==
    [s.Items EXCEPT ![i + 1] = s.Items[j + 1], ![j + 1] = s.Items[i + 1]]

\* the sorter the state holds, as a ByBranches value
BrSorter == [Items |-> Items, root |-> root, before |-> before]

\* sorter.FillLookup() on a ByBranches sorter
BrFill ==
    /\ pc = "new"
    /\ LET r == BrFillLookup(BrSorter)
       IN  /\ root' = r.root
           /\ before' = r.before
           /\ panicVal' = r.panic
           /\ pc' = IF r.panic = "" THEN "filled" ELSE "panic"
    /\ last' = [op |-> "FillLookup", x |-> EmptyString, y |-> EmptyString,
                 panic |-> panicVal', b |-> FALSE, n |-> 0]
    /\ input' = Items
    /\ lookups' = 0
    /\ UNCHANGED <<Items, si, sj, sorts, output, heads>>

\* sort.Sort(sorter) where it is insertionSort alone (fewer than seven
\* elements, or a library whose sort.Sort starts with insertionSort for up
\* to twelve)
BrSortBegin ==
    /\ pc = "filled"
    /\ pc' = "sorting"
    /\ si' = 1
    /\ sj' = 1
    /\ sorts' = sorts + 1
    /\ UNCHANGED <<Items, root, before, panicVal, last, input, output, heads, lookups>>

\* The pass the older sort.Sort makes over seven to twelve elements before
\* insertionSort:
\*     for i := a + 6; i < b; i++ {
\*         if data.Less(i, i-6) { data.Swap(i, i-6) }
\*     }
RECURSIVE ShellPass(_, _)
ShellPass(s, i) ==
    IF i >= Len(s.Items) THEN s.Items
    ELSE IF BrLess(s, i, i - 6).v
         THEN ShellPass([s EXCEPT !.Items = BrSwap(s, i, i - 6)], i + 1)
         ELSE ShellPass(s, i + 1)

\* sort.Sort(sorter) of the older library on seven elements or more: the
\* pass with gap 6, then insertionSort
BrSortBeginShell ==
    /\ pc = "filled"
    /\ Len(Items) >= 7
    /\ Items' = ShellPass(BrSorter, 6)
    /\ pc' = "sorting"
    /\ si' = 1
    /\ sj' = 1
    /\ sorts' = sorts + 1
    /\ UNCHANGED <<root, before, panicVal, last, input, output, heads, lookups>>

BrLessCall(i, j, r) ==
    [op |-> "Less", x |-> Ref(Items[i + 1].key), y |-> Ref(Items[j + 1].key),
     panic |-> r.panic, b |-> r.v, n |-> 0]

BrInsertionSwap ==
    /\ pc = "sorting"
    /\ si < Len(Items)
    /\ sj > 0
    /\ LET r == BrLess(BrSorter, sj, sj - 1)
       IN  /\ ~Failed(r)
           /\ r.v
           /\ last' = BrLessCall(sj, sj - 1, r)
    /\ Items' = BrSwap(BrSorter, sj, sj - 1)
    /\ sj' = sj - 1
    /\ lookups' = 0
    /\ UNCHANGED <<root, before, pc, panicVal, si, input, sorts, output, heads>>

BrInsertionNext ==
    /\ pc = "sorting"
    /\ si < Len(Items)
    /\ \/ /\ sj = 0
          /\ last' = last
       \/ /\ sj > 0
          /\ LET r == BrLess(BrSorter, sj, sj - 1)
             IN  /\ ~Failed(r)
                 /\ ~r.v
                 /\ last' = BrLessCall(sj, sj - 1, r)
    /\ si' = si + 1
    /\ sj' = si + 1
    /\ lookups' = IF sj = 0 THEN lookups ELSE 0
    /\ UNCHANGED <<Items, root, before, pc, panicVal, input, sorts, output, heads>>

BrSortReturn ==
    /\ pc = "sorting"
    /\ si >= Len(Items)
    /\ pc' = "sorted"
    /\ output' = Items
    /\ UNCHANGED <<Items, root, before, panicVal, si, sj, last, input, sorts, heads, lookups>>

\* TestBranchCausalitySimple: the messages, each keyed by the place the test
\* expects it at (its order field): p1 = 1, b1 = 2, p2 = 3, s1 = 4, b2 = 5,
\* p3 = 6, s2 = 7, b3 = 8
CausalitySimple ==
    << [key |-> 1, prev |-> <<>>],
       [key |-> 3, prev |-> <<2>>],
       [key |-> 6, prev |-> <<5>>],
       [key |-> 2, prev |-> <<1>>],
       [key |-> 5, prev |-> <<3, 4>>],
       [key |-> 8, prev |-> <<6, 7>>],
       [key |-> 4, prev |-> <<1>>],
       [key |-> 7, prev |-> <<5>>] >>

\* rand.Shuffle exchanges pairs of entries; the orders it is followed through
MaxExchanges == 2

\* the order o with the entries at a and b exchanged
Exchange(o, a, b) == [o EXCEPT ![a] = o[b], ![b] = o[a]]

\* the orders of n things reached from the written one by at most k exchanges
RECURSIVE Exchanged(_, _)
Exchanged(n, k) ==
    IF k = 0 THEN {[i \in 1..n |-> i]}
    ELSE LET fewer == Exchanged(n, k - 1)
         IN  fewer \cup {Exchange(o, a, b) : o \in fewer, a \in 1..n, b \in 1..n}

InitCausality ==
    /\ \E o \in Exchanged(Len(CausalitySimple), MaxExchanges) :
            Items = Shuffled(CausalitySimple, o)
    /\ NewSorter

NextCausality ==
    \/ BrFill
    \/ BrSortBegin
    \/ BrSortBeginShell
    \/ BrInsertionSwap
    \/ BrInsertionNext
    \/ BrSortReturn

SpecCausality == InitCausality /\ [][NextCausality]_vars

\* C22: sorting any shuffle of the messages of TestBranchCausalitySimple
\* with ByBranches yields exactly p1, b1, p2, s1, b2, p3, s2, b3.
C22_CausalitySimpleOrder ==
    (pc = "sorted" /\ ItemsAre(CausalitySimple)) =>
        KeysOf(Items) = <<1, 2, 3, 4, 5, 6, 7, 8>>

----------------------------------------------------------------------------
\* What sorting leaves alone

\* how often m occurs in the sequence q
Occurrences(q, m) == Cardinality({i \in 1..Len(q) : q[i] = m})

\* a and b hold the same messages the same number of times
IsPermutation(a, b) ==
    /\ Len(a) = Len(b)
    /\ \A m \in Elements(a) \cup Elements(b) : Occurrences(a, m) = Occurrences(b, m)

\* the sort has begun: Less and Swap have been called any number of times
SortUnderWay ==
    \/ pc \in {"sorting", "sorted"}
    \/ pc \in {"panic", "fatal"} /\ last.op = "Less"

\* C23: whatever Less and Swap calls the sort has made, Items is a
\* permutation of the Items FillLookup saw (same length, every message as
\* often as before, none altered), and the recorded root and the index are
\* the ones FillLookup left.
C23_SortOnlyReorders ==
    SortUnderWay =>
        /\ IsPermutation(Items, input)
        /\ LET filled == FillLoop(input, 1, EmptyString, EmptyMap)
           IN  /\ root = filled.root
               /\ before = filled.bf

\* MaxKeys messages have been sorted, and the sort moved some of them
C23_Witness ==
    /\ pc = "sorted"
    /\ Len(Items) = MaxKeys
    /\ Items # input
    /\ last.op = "Less"

----------------------------------------------------------------------------
\* One sorter, two message sets: the caller replaces Items and calls
\* FillLookup again.

\* the sequence q without its k-th entry
Without(q, k) == [i \in 1..(Len(q) - 1) |-> IF i < k THEN q[i] ELSE q[i + 1]]

\* sorter.Items = <the messages but one>; root and before stay as they are
ReplaceItems ==
    /\ pc = "filled"
    /\ Len(Items) > 1
    /\ \E k \in 1..Len(Items) : Items' = Without(Items, k)
    /\ pc' = "new"
    /\ UNCHANGED <<root, before, panicVal, si, sj, last, input, sorts, output, heads, lookups>>

NextRefill ==
    \/ FillLookup
    \/ ReplaceItems

SpecRefill == Init /\ [][NextRefill]_vars

\* C24: when FillLookup has run (again, or for the first time), the index
\* is the one of the present Items alone and so is the root: a set without
\* any previous-less message has failed with "no root?!" even if the set
\* before had a root, and a root that is recorded is a previous-less message
\* of the present Items.
C24_IndexOfPresentItemsOnly ==
    (last.op = "FillLookup" /\ pc \in {"filled", "panic"}) =>
        /\ before = FillLoop(Items, 1, EmptyString, EmptyMap).bf
        /\ Rootless = {} => (pc = "panic" /\ panicVal = "no root?!")
        /\ pc = "filled" => root \in {Ref(k) : k \in Rootless}

----------------------------------------------------------------------------
\* The same query twice

\* sorter.hopsToRoot(key, 0) once more, with the key of the query before
HopsToRootAgain ==
    /\ pc = "filled"
    /\ last.op \in {"hopsToRoot", "hopsToRoot again"}
    /\ LET h == hopsToRoot(last.x, 0)
       IN  /\ last' = [op |-> "hopsToRoot again", x |-> last.x, y |-> EmptyString,
                       panic |-> h.panic, b |-> FALSE, n |-> h.v]
           /\ panicVal' = h.panic
           /\ pc' = IF Failed(h) THEN Unwound(h.panic) ELSE pc
    /\ lookups' = hopsLookups(last.x)
    /\ UNCHANGED <<Items, root, before, si, sj, input, sorts, output, heads>>

NextQueries ==
    \/ FillLookup
    \/ HopsToRootCall
    \/ HopsToRootAgain

SpecQueries == InitTangle /\ [][NextQueries]_vars

\* C25: the oracle memoizes per identity and the memo is transparent: a
\* query that repeats the query before it gets the answer of the recursive
\* definition, and gets it from the cache, without reading the index again.
C25_RepeatedQueryFromCache ==
    last.op = "hopsToRoot again" =>
        /\ last.panic = ""
        /\ last.n = LongestPath(KeyOfRef(last.x))
        /\ lookups = 0

----------------------------------------------------------------------------
\* Depths

\* C26: on a valid tangle the depth falls strictly along previous edges:
\* pointsTo(x, y) implies hopsToRoot(x, 0) > hopsToRoot(y, 0); so the
\* pointsTo guard of Less never contradicts the comparison of the depths,
\* and Less(i, j) is hopsToRoot(i) < hopsToRoot(j).
C26_DepthStrictlyMonotone ==
    (JustIndexed /\ ValidTangle) =>
        /\ \A x, y \in MsgKeys :
               pointsTo(Ref(x), Ref(y)).v =>
                   hopsToRoot(Ref(x), 0).v > hopsToRoot(Ref(y), 0).v
        /\ \A i, j \in GoIndices :
               Less(i, j) = Val(hopsToRoot(KeyRef(Items[i + 1]), 0).v
                                    < hopsToRoot(KeyRef(Items[j + 1]), 0).v)

\* a tangle of MaxKeys messages in which a merge points to a message that is
\* as far from the root by the shortest way as the merge itself
C26_Witness ==
    /\ JustIndexed
    /\ ValidTangle
    /\ Len(Items) = MaxKeys
    /\ \E x, y \in MsgKeys :
           /\ pointsTo(Ref(x), Ref(y)).v
           /\ TheRoot \in PrevOf(x)
           /\ TheRoot \in PrevOf(y)

----------------------------------------------------------------------------
\* The depths along the sorted Items

\* the depth hopsToRoot reports for the message at place i (from 1) of Items
DepthAt(i) == hopsToRoot(KeyRef(Items[i]), 0).v

\* the depths of the sorted Items, front to back
DepthsOfItems == [i \in 1..Len(Items) |-> DepthAt(i)]

\* the depths of a set of messages in ascending order, each as often as
\* messages have it: a function of the set, not of any order of it
RECURSIVE DepthsOfSet(_)
DepthsOfSet(K) ==
    IF K = {} THEN <<>>
    ELSE LET k == CHOOSE a \in K : \A b \in K : LongestPath(a) <= LongestPath(b)
         IN  <<LongestPath(k)>> \o DepthsOfSet(K \ {k})

----------------------------------------------------------------------------
\* How deep the oracles recurse

RECURSIVE pointsToDepthAt(_, _, _)
RECURSIVE pointsToDepthLoop(_, _, _, _)

\* the deepest activation reached by the loop of pointsTo from entry k on,
\* the loop running in activation number depth
pointsToDepthLoop(list, k, y, depth) ==
    IF k > Len(list) THEN depth
    ELSE IF list[k] = y THEN depth
    ELSE LET r == pointsToAt(list[k], y, depth + 1)
             d == pointsToDepthAt(list[k], y, depth + 1)
         IN  IF Failed(r) \/ r.v THEN d
             ELSE Max({d, pointsToDepthLoop(list, k + 1, y, depth)})

\* the deepest activation reached by pointsTo(x, y) run as activation
\* number depth
pointsToDepthAt(x, y, depth) ==
    IF x \notin DOMAIN before THEN depth
    ELSE IF depth > MaxDepth THEN depth
    ELSE pointsToDepthLoop(before[x], 1, y, depth)

\* the number of activations of pointsTo on the stack at most, for the
\* caller's pointsTo(x, y)
pointsToDepth(x, y) == pointsToDepthAt(x, y, 1)

RECURSIVE hopsDepthAt(_, _)
RECURSIVE hopsDepthLoop(_, _, _)

\* the deepest activation reached by the loop of hopsToRoot from entry k on
hopsDepthLoop(list, k, depth) ==
    IF k > Len(list) THEN depth
    ELSE IF list[k] = root THEN hopsDepthLoop(list, k + 1, depth)
    ELSE LET h == hopsToRootAt(list[k], 0, depth + 1)
             d == hopsDepthAt(list[k], depth + 1)
         IN  IF Failed(h) THEN d
             ELSE Max({d, hopsDepthLoop(list, k + 1, depth)})

\* the deepest activation reached by hopsToRoot(key, _) run as activation
\* number depth
hopsDepthAt(key, depth) ==
    IF key = root THEN depth
    ELSE IF key \notin DOMAIN before THEN depth
    ELSE IF depth > MaxDepth THEN depth
    ELSE hopsDepthLoop(before[key], 1, depth)

\* the number of activations of hopsToRoot on the stack at most, for the
\* caller's hopsToRoot(key, _)
hopsDepth(key) == hopsDepthAt(key, 1)

\* C28: on an indexed valid tangle of n messages hopsToRoot(x, 0) is 0
\* exactly for the root and lies in 1..n-1 for every other message, and
\* neither hopsToRoot nor pointsTo ever has more than n activations of
\* itself on the stack.
C28_DepthsBounded ==
    (JustIndexed /\ ValidTangle) =>
        LET n == Len(Items)
        IN  /\ \A x \in MsgKeys :
                  LET h == hopsToRoot(Ref(x), 0)
                  IN  /\ ~Failed(h)
                      /\ (h.v = 0) <=> (x = TheRoot)
                      /\ x # TheRoot => h.v \in 1..(n - 1)
                      /\ hopsDepth(Ref(x)) <= n
            /\ \A x \in MsgKeys : \A y \in Keys :
                  /\ ~Failed(pointsTo(Ref(x), Ref(y)))
                  /\ pointsToDepth(Ref(x), Ref(y)) <= n

\* a chain of MaxKeys messages is indexed: its last message is n - 1 hops
\* from the root, hopsToRoot stacks n - 1 activations to find that, and
\* pointsTo stacks n to find that the last message does not point to itself
C28_Witness ==
    /\ JustIndexed
    /\ ValidTangle
    /\ Len(Items) = MaxKeys
    /\ \E x \in MsgKeys :
          /\ hopsToRoot(Ref(x), 0) = Val(MaxKeys - 1)
          /\ hopsDepth(Ref(x)) = MaxKeys - 1
          /\ pointsToDepth(Ref(x), Ref(x)) = MaxKeys

----------------------------------------------------------------------------
\* ByBranches and ByPrevious side by side

\* a ByBranches sorter over the Items handed to ByPrevious, after its own
\* FillLookup
BranchesSorter ==
    BrFillLookup([Items |-> input, root |-> EmptyString, before |-> EmptyMap])

\* the hop counts the comparison is made for
Hops == 0..1

\* A caller that indexes its messages with one sorter or the other.
NextEither ==
    \/ FillLookup
    \/ BrFill

SpecEither == Init /\ [][NextEither]_vars

\* C29: over messages whose Branches() are the previous list of Tangle(name),
\* ByBranches.FillLookup leaves the root and the index ByPrevious.FillLookup
\* leaves and fails when it fails, and pointsTo, hopsToRoot and Less of the
\* two return the same value or fail alike for every query.
C29_BranchesIsPrevious ==
    last.op = "FillLookup" =>
        LET s == BranchesSorter
        IN  /\ s.root = root
            /\ s.before = before
            /\ s.panic = panicVal
            /\ \A x \in AllRefs : \A y \in AllRefs :
                  BrPointsTo(s, x, y) = pointsTo(x, y)
            /\ \A x \in AllRefs : \A h \in Hops :
                  BrHopsToRoot(s, x, h) = hopsToRoot(x, h)
            /\ \A i \in GoIndices : \A j \in GoIndices :
                  BrLess(s, i, j) = Less(i, j)

\* both sorters have indexed MaxKeys messages of which some comparison
\* returns true and some panics on a message that is neither the root nor
\* in the index
C29_Witness ==
    /\ JustIndexed
    /\ Len(Items) = MaxKeys
    /\ BranchesSorter.before = before
    /\ \E i \in GoIndices : \E j \in GoIndices : BrLess(BranchesSorter, i, j) = Val(TRUE)
    /\ \E i \in GoIndices : \E j \in GoIndices :
          BrLess(BranchesSorter, i, j).panic = "untangled message which isnt root"

----------------------------------------------------------------------------
\* The hop accumulator

\* the largest hop count a caller starts hopsToRoot with
MaxHop == 2

RECURSIVE hopsDiscardedAt(_, _, _)
RECURSIVE hopsDiscardedLoop(_, _, _, _)

\* how many results of recursive calls the test h > 0 drops, in the loop of
\* hopsToRoot from entry k on and in the calls it makes
hopsDiscardedLoop(list, k, hop, depth) ==
    IF k > Len(list) THEN 0
    ELSE IF list[k] = root THEN hopsDiscardedLoop(list, k + 1, hop, depth)
    ELSE LET h == hopsToRootAt(list[k], hop + 1, depth + 1)
             below == hopsDiscardedAt(list[k], hop + 1, depth + 1)
         IN  IF Failed(h) THEN below
             ELSE (IF h.v > 0 THEN 0 ELSE 1) + below
                  + hopsDiscardedLoop(list, k + 1, hop, depth)

\* the same for one activation of hopsToRoot(key, hop)
hopsDiscardedAt(key, hop, depth) ==
    IF key = root THEN 0
    ELSE IF key \notin DOMAIN before THEN 0
    ELSE IF depth > MaxDepth THEN 0
    ELSE hopsDiscardedLoop(before[key], 1, hop, depth)

hopsDiscarded(key, hop) == hopsDiscardedAt(key, hop, 1)

\* C30: on an indexed valid tangle, for every message and every hop count h
\* from 0 on, hopsToRoot(key, h) = h + hopsToRoot(key, 0); for the root and
\* h = 0 that is 0; and the test h > 0 drops no result of a recursive call.
C30_HopIsOffset ==
    (JustIndexed /\ ValidTangle) =>
        /\ hopsToRoot(root, 0) = Val(0)
        /\ \A x \in MsgKeys : \A h \in 0..MaxHop :
              /\ hopsToRoot(Ref(x), h) = Val(h + hopsToRoot(Ref(x), 0).v)
              /\ hopsDiscarded(Ref(x), h) = 0

\* MaxKeys messages are indexed, one of them a merge whose two paths to the
\* root differ in length, and it is asked for with a hop count above zero
C30_Witness ==
    /\ JustIndexed
    /\ ValidTangle
    /\ Len(Items) = MaxKeys
    /\ \E x \in MsgKeys :
          /\ Cardinality(PrevOf(x)) > 1
          /\ hopsToRoot(Ref(x), 0) = Val(MaxKeys - 1)
          /\ hopsToRoot(Ref(x), MaxHop) = Val(MaxHop + MaxKeys - 1)

====
